---- MODULE Spec2Model ----
(***************************************************************************)
(* A model of crux_core's effect command and continuation-resolution       *)
(* runtime: Command (command.rs) with its type-erased callbacks over the   *)
(* BCS wire encoding, and the AppTester harness (testing.rs) that runs the *)
(* executor to quiescence and drains the effect and event channels into an *)
(* Update.                                                                  *)
(***************************************************************************)
EXTENDS Integers, Sequences, FiniteSets, TLC

VARIABLES
    commands,   \* Vec<Command<Ef, Ev>>: the commands under construction / in use
    origin,     \* ghost: per command, what it was built from and the lifts applied
    lastCall,   \* ghost: the last Command::resolve call and what it returned
    app,        \* the AppTester: executor, capability units, the two channels
    delivered,  \* ghost: the effects and events of every Update so far, in order
    lastOp,     \* ghost: the last AppTester call and what it returned
    held,       \* Option<Update<Ef, Ev>>: the Update a test holds, <<>> once moved
    helperCalls, \* ghost: the Update helper calls made on it and what they returned
    decl,       \* the struct that #[derive(Effect)] is applied to
    derived,    \* Option: what EffectStructReceiver::to_tokens gave for decl
    pc,         \* where the running call of AppContext::updates is, or "idle"
    partial,    \* the local effects of that call, once drained
    produced    \* how much the producer thread has sent

cmdVars == <<commands, origin, lastCall>>

testerVars == <<app, delivered, lastOp>>

updVars == <<held, helperCalls>>

macroVars == <<decl, derived>>

stepVars == <<pc, partial, produced>>

vars == <<commands, origin, lastCall, app, delivered, lastOp,
          held, helperCalls, decl, derived, pc, partial, produced>>

----------------------------------------------------------------------------
(* Bounds *)

MaxCommands == 2
MaxPayloadLen == 1
MaxTasks == 3
MaxSpawns == 2
MaxValueLen == 1

----------------------------------------------------------------------------
(* Sequences helpers *)

SeqsUpTo(S, n) == UNION {[1..k -> S] : k \in 0..n}

RECURSIVE Pow2(_)
Pow2(k) == IF k = 0 THEN 1 ELSE 2 * Pow2(k - 1)

----------------------------------------------------------------------------
(* Values that cross the effect/response boundary.  Every value has the    *)
(* same shape: its type, a number (u8) and a sequence (bytes of a Vec<u8>, *)
(* code points of a String).                                                *)

Types == {"u8", "bytes", "string"}

ByteSample == {0, 1, 128}
CharSample == {65, 233}

U8(n) == [ty |-> "u8", n |-> n, s |-> <<>>]
Bytes(s) == [ty |-> "bytes", n |-> 0, s |-> s]
Str(s) == [ty |-> "string", n |-> 0, s |-> s]
NoValue == [ty |-> "none", n |-> 0, s |-> <<>>]

Values(T) ==
    CASE T = "u8" -> {U8(n) : n \in ByteSample \cup {255}}
      [] T = "bytes" -> {Bytes(s) : s \in SeqsUpTo(ByteSample, MaxValueLen)}
      [] T = "string" -> {Str(s) : s \in SeqsUpTo(CharSample, MaxValueLen)}

----------------------------------------------------------------------------
(* The BCS encoding (bcs::to_bytes / bcs::from_bytes).                      *)

RECURSIVE Uleb128(_)
Uleb128(n) ==
    IF n < 128 THEN <<n>> ELSE <<(n % 128) + 128>> \o Uleb128(n \div 128)

\* UTF-8 of one code point (a Rust char is a Unicode scalar value).
Utf8Char(cp) ==
    IF cp < 128 THEN <<cp>>
    ELSE IF cp < 2048 THEN <<192 + (cp \div 64), 128 + (cp % 64)>>
    ELSE IF cp < 65536
         THEN <<224 + (cp \div 4096), 128 + ((cp \div 64) % 64), 128 + (cp % 64)>>
         ELSE <<240 + (cp \div 262144), 128 + ((cp \div 4096) % 64),
                128 + ((cp \div 64) % 64), 128 + (cp % 64)>>

RECURSIVE Utf8(_)
Utf8(s) == IF s = <<>> THEN <<>> ELSE Utf8Char(Head(s)) \o Utf8(Tail(s))

ToBytes(v) ==
    CASE v.ty = "u8" -> <<v.n>>
      [] v.ty = "bytes" -> Uleb128(Len(v.s)) \o v.s
      [] v.ty = "string" -> Uleb128(Len(Utf8(v.s))) \o Utf8(v.s)

\* parse_u32_from_uleb128 and the MAX_SEQUENCE_LENGTH check on its result: at
\* most five bytes, canonical, and a length of at most 2^31 - 1.  The fifth
\* byte carries bits 28 and up, so a digit above 7 there is a value above
\* 2^31 - 1 (beyond u32 when above 15): either way the decoding fails.
RECURSIVE ParseUleb(_, _, _, _)
ParseUleb(b, i, shift, acc) ==
    IF shift > 28 THEN [ok |-> FALSE, value |-> 0, next |-> i]
    ELSE IF i > Len(b) THEN [ok |-> FALSE, value |-> 0, next |-> i]
    ELSE LET byte == b[i]
             digit == byte % 128
         IN  IF shift = 28 /\ digit > 7
             THEN [ok |-> FALSE, value |-> 0, next |-> i]
             ELSE LET value == acc + digit * Pow2(shift)
                  IN  IF digit = byte
                      THEN IF shift > 0 /\ digit = 0
                           THEN [ok |-> FALSE, value |-> 0, next |-> i]
                           ELSE [ok |-> TRUE, value |-> value, next |-> i + 1]
                      ELSE ParseUleb(b, i + 1, shift + 7, value)

IsCont(x) == x >= 128 /\ x <= 191

\* std::str::from_utf8 followed by chars(): the code points of b, or a failure.
RECURSIVE Utf8Decode(_)
Utf8Decode(b) ==
    IF b = <<>> THEN [ok |-> TRUE, s |-> <<>>]
    ELSE
      LET b1 == b[1]
          n == IF b1 < 128 THEN 1
               ELSE IF b1 >= 194 /\ b1 <= 223 THEN 2
               ELSE IF b1 >= 224 /\ b1 <= 239 THEN 3
               ELSE IF b1 >= 240 /\ b1 <= 244 THEN 4
               ELSE 0
          wellFormed ==
              /\ n > 0
              /\ Len(b) >= n
              /\ \A k \in 2..n : IsCont(b[k])
              /\ (b1 = 224 => b[2] >= 160)
              /\ (b1 = 237 => b[2] <= 159)
              /\ (b1 = 240 => b[2] >= 144)
              /\ (b1 = 244 => b[2] <= 143)
          cp == CASE n = 1 -> b1
                  [] n = 2 -> (b1 - 192) * 64 + (b[2] - 128)
                  [] n = 3 -> (b1 - 224) * 4096 + (b[2] - 128) * 64 + (b[3] - 128)
                  [] n = 4 -> (b1 - 240) * 262144 + (b[2] - 128) * 4096
                              + (b[3] - 128) * 64 + (b[4] - 128)
      IN  IF ~wellFormed THEN [ok |-> FALSE, s |-> <<>>]
          ELSE LET rest == Utf8Decode(SubSeq(b, n + 1, Len(b)))
               IN  IF rest.ok THEN [ok |-> TRUE, s |-> <<cp>> \o rest.s]
                   ELSE [ok |-> FALSE, s |-> <<>>]

DecodeErr == [ok |-> FALSE, v |-> NoValue]

\* A length-prefixed byte slice that must use up the whole input.
ParseSlice(b) ==
    LET l == ParseUleb(b, 1, 0, 0)
    IN  IF ~l.ok THEN [ok |-> FALSE, s |-> <<>>]
        ELSE IF Len(b) - (l.next - 1) # l.value THEN [ok |-> FALSE, s |-> <<>>]
        ELSE [ok |-> TRUE, s |-> SubSeq(b, l.next, Len(b))]

\* FromBytes with a slip: the bytes of a Vec<u8> or String taken whole, the
\* length in front of them not read.
FromBytesNoLengthPrefix(T, b) ==
    IF T = "u8"
    THEN IF Len(b) = 1 THEN [ok |-> TRUE, v |-> U8(b[1])] ELSE DecodeErr
    ELSE [ok |-> TRUE, v |-> [ty |-> T, n |-> 0, s |-> b]]

FromBytes(T, b) ==
    CASE T = "u8" ->
           IF Len(b) = 1 THEN [ok |-> TRUE, v |-> U8(b[1])] ELSE DecodeErr
      [] T = "bytes" ->
           LET p == ParseSlice(b)
           IN  IF p.ok THEN [ok |-> TRUE, v |-> Bytes(p.s)] ELSE DecodeErr
      [] T = "string" ->
           LET p == ParseSlice(b)
               u == Utf8Decode(p.s)
           IN  IF p.ok /\ u.ok THEN [ok |-> TRUE, v |-> Str(u.s)] ELSE DecodeErr

----------------------------------------------------------------------------
(* Events and the functions over them.  An event is a path of variant tags *)
(* around a payload: TimeReceived(v) is <<"TimeReceived">> with arg v, and  *)
(* Submodule(TimeReceived(v)) is <<"Submodule", "TimeReceived">> with v.    *)

\* The capabilities that build commands.  Time::get takes a callback over
\* Response(String); Http and KeyValue stand for capabilities whose callbacks
\* take a Vec<u8> and a u8; Render asks for no response.
Effects == {"Time", "Http", "KeyValue", "Render"}
Requesting == {"Time", "Http", "KeyValue"}

\* The response type T of the callback each capability takes.
OutputType(effect) ==
    CASE effect = "Time" -> "string"
      [] effect = "Http" -> "bytes"
      [] effect = "KeyValue" -> "u8"

\* The continuation the app hands to each capability: an event variant
\* wrapping the response, or (KeyValue) a closure that ignores it.
Continuation(effect) ==
    CASE effect = "Time" -> "TimeReceived"
      [] effect = "Http" -> "HttpResponse"
      [] effect = "KeyValue" -> "Tick"

\* The functions handed to Command::lift, innermost first: Submodule takes a
\* child app's event to its parent's, Root the parent's to the root app's.
\* Lifting changes the event type, so a Vec of commands is lifted along this
\* chain and no further.
LiftFns == <<"Submodule", "Root">>

NoEvent == [path |-> <<>>, arg |-> NoValue]

\* The continuations F: Fn(T) -> Ev handed to Command::new.
ApplyFn(name, v) ==
    IF name = "Tick" THEN [path |-> <<"Tick">>, arg |-> NoValue]
    ELSE [path |-> <<name>>, arg |-> v]

\* The functions F: Fn(Ev) -> ParentEv handed to Command::lift (enum variant
\* constructors such as Msg::Submodule).
ApplyLift(f, ev) == [path |-> <<f>> \o ev.path, arg |-> ev.arg]

Returned(ev) == [panicked |-> FALSE, msg |-> "", ev |-> ev]
Panicked(msg) == [panicked |-> TRUE, msg |-> msg, ev |-> NoEvent]

UnwrapMsg == "called Result::unwrap() on an Err value"
MismatchMsg == "mismatched capability response"

----------------------------------------------------------------------------
(* Command (command.rs).  The Option<Box<dyn Callback>> is a sequence of   *)
(* length at most one.  A callback is a CallBackFn<T, Event>: the type T it *)
(* decodes and the boxed function, which is either a function handed to    *)
(* Command::new or the closure Command::map builds.                         *)

IntoCallback(T, name) == [T |-> T, kind |-> "fn", name |-> name]

New(effect, T, name) == [effect |-> effect, resolve |-> <<IntoCallback(T, name)>>]

NewWithoutCallback(effect) == [effect |-> effect, resolve |-> <<>>]

\* Callback::call for CallBackFn: decode, unwrap, apply the function.  The
\* closure of Command::map takes the decoded Vec<u8>, encodes it again and
\* hands those bytes to the callback it wraps.
RECURSIVE Call(_, _)
Call(cb, value) ==
    LET response == FromBytes(cb.T, value)
    IN  IF ~response.ok THEN Panicked(UnwrapMsg)
        ELSE IF cb.kind = "fn" THEN Returned(ApplyFn(cb.name, response.v))
        ELSE LET inner == Call(cb.resolve, ToBytes(response.v))
             IN  IF inner.panicked THEN inner
                 ELSE Returned(ApplyLift(cb.f, inner.ev))

\* Resolve with a slip: a default event instead of the panic; and the
\* callback taken out of the Option when it is called.
ResolveReturnsDefault(cmd, value) ==
    [ret |-> IF Len(cmd.resolve) > 0 THEN Call(cmd.resolve[1], value)
             ELSE Returned(NoEvent),
     self |-> cmd]

ResolveTakesCallback(cmd, value) ==
    [ret |-> IF Len(cmd.resolve) > 0 THEN Call(cmd.resolve[1], value)
             ELSE Panicked(MismatchMsg),
     self |-> [cmd EXCEPT !.resolve = <<>>]]

\* Command::resolve(&self, value): what it returns, and self afterwards.
Resolve(cmd, value) ==
    [ret |-> IF Len(cmd.resolve) > 0 THEN Call(cmd.resolve[1], value)
             ELSE Panicked(MismatchMsg),
     self |-> cmd]

Map(cmd, f) ==
    [effect |-> cmd.effect,
     resolve |-> IF Len(cmd.resolve) > 0
                 THEN <<[T |-> "bytes", kind |-> "closure", f |-> f,
                         resolve |-> cmd.resolve[1]]>>
                 ELSE <<>>]

\* Lift with a slip: filter_map in place of map, so that the commands without
\* a callback are left out.
LiftSkipsWithoutCallback(cs, f) ==
    LET HasCallback(c) == Len(c.resolve) > 0
        kept == SelectSeq(cs, HasCallback)
    IN  [i \in 1..Len(kept) |-> Map(kept[i], f)]

Lift(cs, f) == [i \in 1..Len(cs) |-> Map(cs[i], f)]

----------------------------------------------------------------------------
(* The Command state machine: commands are built, lifted as a whole and    *)
(* resolved with byte payloads.                                             *)

\* again: the call before this one resolved the same command.
\* before, after: the command as it was when resolve was called and when it
\* returned.
NoCall == [idx |-> 0, payload |-> <<>>, ret |-> Panicked(""),
           before |-> NewWithoutCallback(""),
           after |-> NewWithoutCallback(""), again |-> FALSE]

\* Byte strings that are the encoding of no Vec<u8> or String: bytes after
\* the end, a length with a needless zero digit, a length of 128 with no data.
Malformed == {<<0, 0>>, <<128, 0>>, <<128, 1>>}

\* The payloads a command is resolved with: every short byte string, the
\* encoding of every value, and the malformed ones.
Payloads ==
    SeqsUpTo(ByteSample, MaxPayloadLen)
        \cup {ToBytes(v) : v \in UNION {Values(T) : T \in Types}}
        \cup Malformed

CmdInit ==
    /\ commands = <<>>
    /\ origin = <<>>
    /\ lastCall = NoCall

\* Capabilities build commands over the child app's event type, so they join
\* the Vec before it is lifted.
Unlifted == \A i \in 1..Len(origin) : origin[i].lifts = <<>>

LiftDepth == IF origin = <<>> THEN 0 ELSE Len(origin[1].lifts)

DoNew(effect) ==
    /\ Len(commands) < MaxCommands
    /\ Unlifted
    /\ commands' = Append(commands, New(effect, OutputType(effect), Continuation(effect)))
    /\ origin' = Append(origin, [effect |-> effect, T |-> OutputType(effect),
                                 name |-> Continuation(effect), lifts |-> <<>>])
    /\ UNCHANGED <<lastCall, testerVars, updVars, macroVars, stepVars>>

DoNewWithoutCallback(effect) ==
    /\ Len(commands) < MaxCommands
    /\ Unlifted
    /\ commands' = Append(commands, NewWithoutCallback(effect))
    /\ origin' = Append(origin, [effect |-> effect, T |-> "none", name |-> "",
                                 lifts |-> <<>>])
    /\ UNCHANGED <<lastCall, testerVars, updVars, macroVars, stepVars>>

DoLift(f) ==
    /\ LiftDepth < Len(LiftFns)
    /\ f = LiftFns[LiftDepth + 1]
    /\ commands' = Lift(commands, f)
    /\ origin' = [i \in 1..Len(origin) |->
                    [origin[i] EXCEPT !.lifts = Append(@, f)]]
    /\ UNCHANGED <<lastCall, testerVars, updVars, macroVars, stepVars>>

DoResolve(i, payload) ==
    /\ LET r == Resolve(commands[i], payload)
       IN  /\ lastCall' = [idx |-> i, payload |-> payload, ret |-> r.ret,
                           before |-> commands[i], after |-> r.self,
                           again |-> lastCall.idx = i]
           /\ commands' = [commands EXCEPT ![i] = r.self]
    /\ UNCHANGED <<origin, testerVars, updVars, macroVars, stepVars>>

CmdNext ==
    \/ \E e \in Requesting : DoNew(e)
    \/ \E e \in Effects \ Requesting : DoNewWithoutCallback(e)
    \/ \E f \in {LiftFns[k] : k \in 1..Len(LiftFns)} : DoLift(f)
    \/ \E i \in 1..Len(commands), payload \in Payloads : DoResolve(i, payload)


----------------------------------------------------------------------------
(* Properties of Command                                                    *)

Called == lastCall.idx # 0

\* Command::new(effect, f) for the capability behind effect.
NewFor(e) == New(e, OutputType(e), Continuation(e))

\* C1: a command built with Command::new(effect, f) and resolved with the
\* canonical encoding of a response value v returns exactly f(v).
C1_NewResolveIsApply ==
    Called =>
        \A e \in Requesting : \A v \in Values(OutputType(e)) :
            (lastCall.before = NewFor(e) /\ lastCall.payload = ToBytes(v))
                => lastCall.ret = Returned(ApplyFn(Continuation(e), v))

C1_Witness ==
    /\ Called
    /\ lastCall.before = NewFor("Time")
    /\ lastCall.payload = ToBytes(Str(<<233>>))
    /\ lastCall.ret = Returned([path |-> <<"TimeReceived">>, arg |-> Str(<<233>>)])

\* C2: resolve on a command built with Command::new_without_callback never
\* returns an event: whatever the payload, and however often it is tried, it
\* ends in the "mismatched capability response" panic.
C2_NoCallbackAlwaysPanics ==
    Called =>
        \A e \in Effects :
            lastCall.before = NewWithoutCallback(e)
                => lastCall.ret = Panicked(MismatchMsg)

C2_Witness ==
    /\ Called
    /\ lastCall.before = NewWithoutCallback("Render")
    /\ lastCall.payload = <<1, 0>>
    /\ lastCall.again
    /\ lastCall.ret.panicked

\* C3: resolving does not consume the continuation: every resolve call leaves
\* the command (effect and continuation) as it was, and a call that follows
\* another on the same Command::new(effect, f) still returns f(v) for the
\* payload encode(v) it is given.
C3_ResolveDoesNotConsume ==
    Called =>
        /\ lastCall.after = lastCall.before
        /\ commands[lastCall.idx].effect = lastCall.before.effect
        /\ lastCall.again =>
             \A e \in Requesting : \A v \in Values(OutputType(e)) :
                 (lastCall.before = NewFor(e) /\ lastCall.payload = ToBytes(v))
                     => lastCall.ret = Returned(ApplyFn(Continuation(e), v))

C3_Witness ==
    /\ Called
    /\ lastCall.again
    /\ lastCall.before = NewFor("Http")
    /\ lastCall.after = NewFor("Http")
    /\ lastCall.payload = ToBytes(Bytes(<<128>>))
    /\ lastCall.ret = Returned([path |-> <<"HttpResponse">>, arg |-> Bytes(<<128>>)])

\* C4: for every command c with continuation k over any response type T and
\* every function f, lift([c], f)[0] resolved with the canonical encoding of
\* a response value v returns f(k(v)).
C4_LiftPostComposes ==
    Called =>
        \A e \in Requesting : \A v \in Values(OutputType(e)) :
            (/\ lastCall.before = Lift(<<NewFor(e)>>, LiftFns[1])[1]
             /\ lastCall.payload = ToBytes(v))
                => lastCall.ret =
                       Returned(ApplyLift(LiftFns[1], ApplyFn(Continuation(e), v)))

\* C5: each command of lift(lift(cs, f), g) that has a continuation k
\* resolves the payload encode(v) to g(f(k(v))).
C5_LiftTwiceComposes ==
    Called =>
        \A e \in Requesting : \A v \in Values(OutputType(e)) :
            (/\ lastCall.before =
                    Lift(Lift(<<NewFor(e)>>, LiftFns[1]), LiftFns[2])[1]
             /\ lastCall.payload = ToBytes(v))
                => lastCall.ret =
                       Returned(ApplyLift(LiftFns[2],
                                    ApplyLift(LiftFns[1],
                                        ApplyFn(Continuation(e), v))))

\* C6: a payload whose bytes do not decode to the declared response type is
\* reported to the caller as a recoverable failure: no event is produced and
\* the process is not terminated.
C6_DecodeFailureIsRecoverable ==
    Called =>
        \A e \in Requesting :
            (/\ lastCall.before = NewFor(e)
             /\ ~FromBytes(OutputType(e), lastCall.payload).ok)
                => ~lastCall.ret.panicked


\* The step is a call of Command::lift on a Vec that is not empty.
Lifted == LiftDepth' > LiftDepth

\* C21: lift changes only continuations: lift(cs, f) is as long as cs, its
\* i-th command carries the effect of the i-th command of cs unchanged, and a
\* command without a continuation stays without one: resolving it after the
\* lift still panics with the contract violation and f is never applied.
C21_LiftChangesOnlyContinuations ==
    /\ [][Lifted =>
            /\ Len(commands') = Len(commands)
            /\ \A i \in 1..Len(commands) :
                   /\ commands'[i].effect = commands[i].effect
                   /\ commands[i].resolve = <<>>
                          => commands'[i].resolve = <<>>]_vars
    /\ []((/\ Called
           /\ origin[lastCall.idx].T = "none"
           /\ origin[lastCall.idx].lifts # <<>>)
              => lastCall.ret = Panicked(MismatchMsg))

C21_Witness ==
    /\ Called
    /\ Len(commands) = 2
    /\ lastCall.idx = 1
    /\ origin[1].T = "none"
    /\ origin[1].lifts # <<>>
    /\ origin[2].T # "none"
    /\ commands[2].resolve # <<>>
    /\ lastCall.before.resolve = <<>>
    /\ lastCall.ret = Panicked(MismatchMsg)

----------------------------------------------------------------------------
(* The AppTester (testing.rs) and what it drives: the channels, the        *)
(* executor and the capability units.                                       *)

\* The values a test resolves a request with (Op::Output).
Outputs == {"2024-01-01T00:00:00Z", "1970-01-01T00:00:00Z"}

\* Capability protocols, as the steps of the unit a capability spawns:
\*   request: send the request to the shell and suspend until it is resolved
\*   notify:  send a request that expects no response, and go on
\*   event:   send an event to the app, carrying the last response
\*   spawn:   schedule another unit on the executor
Step(op, arg) == [op |-> op, arg |-> arg]

Protocol(name) ==
    CASE name = "get" -> <<Step("request", "Time"), Step("event", "TimeReceived")>>
      [] name = "two" -> <<Step("request", "First"), Step("request", "Second")>>
      [] name = "render" -> <<Step("notify", "Render")>>
      [] name = "fan" -> <<Step("event", "Started"), Step("spawn", "render"),
                           Step("notify", "Log")>>

Protocols == {"get", "two", "render", "fan"}

\* The units a protocol needs: itself and what it spawns.
Units(name) == IF name = "fan" THEN 2 ELSE 1

RECURSIVE UnitsOf(_)
UnitsOf(names) ==
    IF names = <<>> THEN 0 ELSE Units(Head(names)) + UnitsOf(Tail(names))

\* AppTester::default: empty channels, an executor with nothing to run.
\* effLog, evLog and polls are ghosts: everything ever sent on either
\* channel, in the order sent, and the number of units the executor has run.
NewTester ==
    [tasks |-> <<>>, ready |-> <<>>, commands |-> <<>>, events |-> <<>>,
     nextId |-> 1, effLog |-> <<>>, evLog |-> <<>>, polls |-> 0]

\* Sender::send on the effect channel and on the event channel.
SendEffect(st, op, tid) ==
    LET request == [id |-> st.nextId, op |-> op, task |-> tid,
                    prog |-> IF tid = 0 THEN "" ELSE st.tasks[tid].prog]
    IN  [st EXCEPT !.commands = Append(@, request),
                   !.effLog = Append(@, request),
                   !.nextId = @ + 1]

SendEvent(st, tag, arg) ==
    LET event == [id |-> st.nextId, tag |-> tag, arg |-> arg]
    IN  [st EXCEPT !.events = Append(@, event),
                   !.evLog = Append(@, event),
                   !.nextId = @ + 1]

\* Spawner::spawn: a new unit, queued to run.
Spawn(st, name) ==
    [st EXCEPT !.tasks = Append(@, [prog |-> name, pc |-> 1, awaiting |-> 0,
                                    resolved |-> FALSE, result |-> ""]),
               !.ready = Append(@, Len(st.tasks) + 1)]

\* One poll of a unit: it runs until it awaits a request that has no response
\* yet, or until its protocol ends.  result is the response to the request
\* the unit awaited last; it goes when the unit issues its next request or
\* ends.
RECURSIVE Poll(_, _)
Poll(st, tid) ==
    LET t == st.tasks[tid]
        steps == Protocol(t.prog)
    IN  IF t.pc > Len(steps) THEN [st EXCEPT !.tasks[tid].result = ""]
        ELSE
          LET step == steps[t.pc]
              advance(s) == [s EXCEPT !.tasks[tid].pc = @ + 1]
          IN  CASE step.op = "notify" ->
                     Poll(advance(SendEffect(st, step.arg, 0)), tid)
                [] step.op = "event" ->
                     Poll(advance(SendEvent(st, step.arg, t.result)), tid)
                [] step.op = "spawn" ->
                     Poll(advance(Spawn(st, step.arg)), tid)
                [] step.op = "request" ->
                     IF t.awaiting = 0
                     THEN [SendEffect(st, step.arg, tid)
                               EXCEPT !.tasks[tid].awaiting = st.nextId,
                                      !.tasks[tid].result = ""]
                     ELSE IF ~t.resolved THEN st
                     ELSE Poll([st EXCEPT !.tasks[tid].pc = @ + 1,
                                          !.tasks[tid].awaiting = 0,
                                          !.tasks[tid].resolved = FALSE], tid)

\* QueuingExecutor::run_all: run queued units, first queued first, until the
\* queue is empty; units queued while it runs are run too.
RECURSIVE RunAll(_)
RunAll(st) ==
    IF st.ready = <<>> THEN st
    ELSE RunAll(Poll([st EXCEPT !.ready = Tail(@), !.polls = @ + 1],
                     Head(st.ready)))

\* Receiver::drain: everything in the channel, first sent first.
Drain(channel) == channel

\* Updates with a slip: the channels drained before the executor runs; the
\* channels read but not emptied; one queued unit run instead of all.
UpdatesDrainBeforeRun(st) ==
    LET ran == RunAll([st EXCEPT !.commands = <<>>, !.events = <<>>])
    IN  [st |-> ran,
         update |-> [effects |-> Drain(st.commands), events |-> Drain(st.events)]]

UpdatesKeepsChannels(st) ==
    LET ran == RunAll(st)
    IN  [st |-> ran,
         update |-> [effects |-> Drain(ran.commands), events |-> Drain(ran.events)]]

UpdatesPollsOnce(st) ==
    LET ran == IF st.ready = <<>> THEN st
               ELSE Poll([st EXCEPT !.ready = Tail(@), !.polls = @ + 1],
                         Head(st.ready))
    IN  [st |-> [ran EXCEPT !.commands = <<>>, !.events = <<>>],
         update |-> [effects |-> Drain(ran.commands), events |-> Drain(ran.events)]]

\* AppContext::updates: run the executor, then drain both channels into an
\* Update.
Updates(st) ==
    LET ran == RunAll(st)
        effects == Drain(ran.commands)
        events == Drain(ran.events)
    IN  [st |-> [ran EXCEPT !.commands = <<>>, !.events = <<>>],
         update |-> [effects |-> effects, events |-> events]]

\* App::update: the app calls capabilities, each of which spawns a unit.
RECURSIVE AppUpdate(_, _)
AppUpdate(st, names) ==
    IF names = <<>> THEN st
    ELSE AppUpdate(Spawn(st, Head(names)), Tail(names))

\* Request::resolve: hands the output to the unit awaiting the request and
\* wakes it; fails when nothing awaits a response to the request.
RequestResolve(st, request, value) ==
    IF request.task # 0 /\ st.tasks[request.task].awaiting = request.id
                        /\ ~st.tasks[request.task].resolved
    THEN [ok |-> TRUE,
          st |-> [st EXCEPT !.tasks[request.task].resolved = TRUE,
                            !.tasks[request.task].result = value,
                            !.ready = Append(@, request.task)]]
    ELSE [ok |-> FALSE, st |-> st]

EmptyUpdate == [effects |-> <<>>, events |-> <<>>]

\* AppTester::update
TesterUpdate(st, names) == Updates(AppUpdate(st, names))

\* AppTester::resolve: the ? returns the failure before updates() is called.
TesterResolve(st, request, value) ==
    LET r == RequestResolve(st, request, value)
    IN  IF ~r.ok THEN [ok |-> FALSE, st |-> r.st, update |-> EmptyUpdate]
        ELSE LET u == Updates(r.st)
             IN  [ok |-> TRUE, st |-> u.st, update |-> u.update]

----------------------------------------------------------------------------
(* The AppTester state machine: a test calls update and resolve.            *)

NoRequest == [id |-> 0, op |-> "", task |-> 0, prog |-> ""]

\* fromEff, fromEv: the lengths of effLog and evLog when the call began.
NoOp == [kind |-> "none", ok |-> TRUE, update |-> EmptyUpdate, spawned |-> 0,
         request |-> NoRequest, fromEff |-> 0, fromEv |-> 0, polls |-> 0]

TesterInit ==
    /\ app = NewTester
    /\ delivered = EmptyUpdate
    /\ lastOp = NoOp

Deliver(update) ==
    [effects |-> delivered.effects \o update.effects,
     events |-> delivered.events \o update.events]

DoUpdate(names) ==
    /\ Len(app.tasks) + UnitsOf(names) <= MaxTasks
    /\ LET r == TesterUpdate(app, names)
       IN  /\ app' = r.st
           /\ delivered' = Deliver(r.update)
           /\ lastOp' = [kind |-> "update", ok |-> TRUE, update |-> r.update,
                         spawned |-> Len(names), request |-> NoRequest,
                         fromEff |-> Len(app.effLog), fromEv |-> Len(app.evLog),
                         polls |-> r.st.polls - app.polls]
    /\ UNCHANGED <<cmdVars, updVars, macroVars, stepVars>>

\* The test resolves a request it took from an earlier Update.
DoTesterResolve(request, value) ==
    /\ LET r == TesterResolve(app, request, value)
       IN  /\ app' = r.st
           /\ delivered' = Deliver(r.update)
           /\ lastOp' = [kind |-> "resolve", ok |-> r.ok, update |-> r.update,
                         spawned |-> 0, request |-> request,
                         fromEff |-> Len(app.effLog), fromEv |-> Len(app.evLog),
                         polls |-> r.st.polls - app.polls]
    /\ UNCHANGED <<cmdVars, updVars, macroVars, stepVars>>

TesterNext ==
    \/ \E names \in SeqsUpTo(Protocols, MaxSpawns) : DoUpdate(names)
    \/ \E i \in 1..Len(delivered.effects), value \in Outputs :
           DoTesterResolve(delivered.effects[i], value)

\* No Update is held by a test until one is handed to it.
UpdIdle ==
    /\ held = <<>>
    /\ helperCalls = <<>>

\* No struct is being derived.
MacroIdle ==
    /\ decl = [ident |-> "", name |-> <<>>, app |-> <<>>, fields |-> <<>>]
    /\ derived = <<>>

\* No call of updates() is running and no other thread has sent anything.
StepIdle ==
    /\ pc = "idle"
    /\ partial = <<>>
    /\ produced = 0

Init == CmdInit /\ TesterInit /\ UpdIdle /\ MacroIdle /\ StepIdle

SpecCommand == Init /\ [][CmdNext]_vars

SpecTester == Init /\ [][TesterNext]_vars

----------------------------------------------------------------------------
(* Properties of the AppTester                                              *)

Returned_Update == lastOp.kind # "none" /\ lastOp.ok

\* What was sent on each channel during the last call, in the order sent.
EmittedEffects == SubSeq(app.effLog, lastOp.fromEff + 1, Len(app.effLog))
EmittedEvents == SubSeq(app.evLog, lastOp.fromEv + 1, Len(app.evLog))

\* C7: in every Update returned by AppTester::update or AppTester::resolve the
\* effects are in exactly the order in which they were emitted during that
\* call, those of units resumed or spawned while the executor ran included;
\* the events likewise.
C7_UpdateKeepsEmissionOrder ==
    Returned_Update =>
        /\ lastOp.update.effects = EmittedEffects
        /\ lastOp.update.events = EmittedEvents

\* The "fan" unit notifies Log after it spawned the "render" unit, which the
\* same run_all then runs.
C7_Witness ==
    /\ lastOp.kind = "update"
    /\ Len(lastOp.update.effects) >= 2
    /\ \E i \in 1..Len(lastOp.update.effects) - 1 :
           /\ lastOp.update.effects[i].op = "Log"
           /\ lastOp.update.effects[i + 1].op = "Render"
    /\ Len(lastOp.update.events) >= 1

\* C8: draining is destructive and loses nothing: every effect and event
\* emitted is in exactly one Update, the first one materialized after it was
\* emitted, and both channels are empty once an Update is materialized.
C8_DrainExactlyOnce ==
    /\ delivered.effects = app.effLog
    /\ delivered.events = app.evLog
    /\ app.commands = <<>>
    /\ app.events = <<>>

C8_Witness ==
    /\ lastOp.kind = "resolve"
    /\ lastOp.ok
    /\ Len(delivered.effects) >= 3
    /\ Len(delivered.events) >= 1
    /\ Len(lastOp.update.events) = 1

\* C9: running the executor twice in a row with no new work scheduled in
\* between is idempotent: an update call in which the app schedules nothing
\* runs no unit and returns an Update with zero effects and zero events.
C9_SecondRunIsEmpty ==
    (lastOp.kind = "update" /\ lastOp.spawned = 0) =>
        /\ lastOp.update = EmptyUpdate
        /\ lastOp.polls = 0

C9_Witness ==
    /\ lastOp.kind = "update"
    /\ lastOp.spawned = 0
    /\ lastOp.update = EmptyUpdate
    /\ Len(delivered.effects) >= 2
    /\ \E t \in 1..Len(app.tasks) : app.tasks[t].awaiting # 0

\* C10: a protocol that issues effect 1, suspends, and on its resolution issues
\* effect 2 yields, from the resolve call for effect 1, an Update holding
\* exactly effect 2 and no event.
C10_SequentialEffects ==
    (/\ lastOp.kind = "resolve"
     /\ lastOp.ok
     /\ lastOp.request.prog = "two"
     /\ lastOp.request.op = "First") =>
        /\ Len(lastOp.update.effects) = 1
        /\ lastOp.update.effects[1].op = "Second"
        /\ lastOp.update.effects[1].task = lastOp.request.task
        /\ lastOp.update.events = <<>>

C10_Witness ==
    /\ lastOp.kind = "resolve"
    /\ lastOp.ok
    /\ lastOp.request.prog = "two"
    /\ lastOp.request.op = "First"
    /\ Len(lastOp.update.effects) = 1
    /\ lastOp.update.effects[1].op = "Second"
    /\ Len(app.tasks) >= 2

----------------------------------------------------------------------------
(* The helpers of Update (testing.rs): expect_one_effect, expect_one_event, *)
(* assert_empty, take_effects and take_effects_partitioned_by.              *)

MaxEffects == 3
MaxEvents == 2
MaxHelperCalls == 2

\* The effects and events an Update under test is made of. Every item has
\* its position in the Update it was drained into as its identity.
EffectKinds == {"Render", "Time"}
EventTags == {"Tick"}

\* The predicates a test passes: the set of the effect kinds that match.
Predicates == SUBSET EffectKinds

Matches(p, effect) == effect.op \in p

UpdateOf(ops, tags) ==
    [effects |-> [i \in 1..Len(ops) |-> [id |-> i, op |-> ops[i]]],
     events |-> [i \in 1..Len(tags) |-> [id |-> i, tag |-> tags[i]]]]

\* format!("... {} effect(s) and {} event(s)", effects.len(), events.len())
CountsMsg(prefix, u) ==
    prefix \o ToString(Len(u.effects)) \o " effect(s) and "
           \o ToString(Len(u.events)) \o " event(s)"

\* What a helper returns: the items it hands back, or the panic it raised.
HelperOk(effects, others, events) ==
    [panicked |-> FALSE, msg |-> "", effects |-> effects, others |-> others,
     events |-> events]

HelperPanic(msg) ==
    [panicked |-> TRUE, msg |-> msg, effects |-> <<>>, others |-> <<>>,
     events |-> <<>>]

\* Vec::pop on a Vec of length one.
Pop(s) == <<s[Len(s)]>>

ExpectOneEffectIgnoresEvents(u) ==
    IF Len(u.effects) = 1
    THEN HelperOk(Pop(u.effects), <<>>, <<>>)
    ELSE HelperPanic(CountsMsg("Expected one effect but found ", u))

ExpectOneEffect(u) ==
    IF u.events = <<>> /\ Len(u.effects) = 1
    THEN HelperOk(Pop(u.effects), <<>>, <<>>)
    ELSE HelperPanic(CountsMsg("Expected one effect but found ", u))

ExpectOneEventIgnoresEffects(u) ==
    IF Len(u.events) = 1
    THEN HelperOk(<<>>, <<>>, Pop(u.events))
    ELSE HelperPanic(CountsMsg("Expected one event but found ", u))

ExpectOneEvent(u) ==
    IF u.effects = <<>> /\ Len(u.events) = 1
    THEN HelperOk(<<>>, <<>>, Pop(u.events))
    ELSE HelperPanic(CountsMsg("Expected one event but found ", u))

AssertEmpty(u) ==
    IF u.effects = <<>> /\ u.events = <<>>
    THEN HelperOk(<<>>, <<>>, <<>>)
    ELSE HelperPanic(CountsMsg("Expected empty update but found ", u))

\* Iterator::partition: both halves keep the order of the iteration.
Partition(s, p) ==
    LET Yes(e) == Matches(p, e)
        No(e) == ~Matches(p, e)
    IN  [matching |-> SelectSeq(s, Yes), other |-> SelectSeq(s, No)]

\* self: the Update after the call.
TakeEffectsPartitionedByLeavesOthers(u, p) ==
    LET split == Partition(u.effects, p)
    IN  [ret |-> HelperOk(split.matching, split.other, <<>>),
         self |-> [u EXCEPT !.effects = split.other]]

TakeEffectsPartitionedBy(u, p) ==
    LET split == Partition(u.effects, p)
    IN  [ret |-> HelperOk(split.matching, split.other, <<>>),
         self |-> [u EXCEPT !.effects = <<>>]]

TakeEffectsDropsOthers(u, p) ==
    LET r == TakeEffectsPartitionedBy(u, p)
    IN  [ret |-> HelperOk(r.ret.effects, <<>>, <<>>), self |-> r.self]

TakeEffectsKeepsMatching(u, p) ==
    LET r == TakeEffectsPartitionedBy(u, p)
    IN  [ret |-> HelperOk(r.ret.others, <<>>, <<>>),
         self |-> [r.self EXCEPT !.effects = r.ret.effects]]

TakeEffects(u, p) ==
    LET r == TakeEffectsPartitionedBy(u, p)
    IN  [ret |-> HelperOk(r.ret.effects, <<>>, <<>>),
         self |-> [r.self EXCEPT !.effects = r.ret.others]]

----------------------------------------------------------------------------
(* The Update state machine: a test holds an Update and calls its helpers. *)

UpdInit ==
    /\ \E ops \in SeqsUpTo(EffectKinds, MaxEffects),
          tags \in SeqsUpTo(EventTags, MaxEvents) :
           held = <<UpdateOf(ops, tags)>>
    /\ helperCalls = <<>>

CanCall == held # <<>> /\ Len(helperCalls) < MaxHelperCalls

HelperCall(op, p, ret, after) ==
    [op |-> op, pred |-> p, before |-> held[1], ret |-> ret, after |-> after]

\* The helpers that take the Update by value: it is gone after the call.
DoExpectOneEffect ==
    /\ CanCall
    /\ helperCalls' = Append(helperCalls,
          HelperCall("expect_one_effect", {}, ExpectOneEffect(held[1]), <<>>))
    /\ held' = <<>>
    /\ UNCHANGED <<cmdVars, testerVars, macroVars, stepVars>>

DoExpectOneEvent ==
    /\ CanCall
    /\ helperCalls' = Append(helperCalls,
          HelperCall("expect_one_event", {}, ExpectOneEvent(held[1]), <<>>))
    /\ held' = <<>>
    /\ UNCHANGED <<cmdVars, testerVars, macroVars, stepVars>>

DoAssertEmpty ==
    /\ CanCall
    /\ helperCalls' = Append(helperCalls,
          HelperCall("assert_empty", {}, AssertEmpty(held[1]), <<>>))
    /\ held' = <<>>
    /\ UNCHANGED <<cmdVars, testerVars, macroVars, stepVars>>

\* The helpers that borrow the Update mutably.
DoTakeEffects(p) ==
    /\ CanCall
    /\ LET r == TakeEffects(held[1], p)
       IN  /\ helperCalls' = Append(helperCalls,
                  HelperCall("take_effects", p, r.ret, <<r.self>>))
           /\ held' = <<r.self>>
    /\ UNCHANGED <<cmdVars, testerVars, macroVars, stepVars>>

DoTakeEffectsPartitionedBy(p) ==
    /\ CanCall
    /\ LET r == TakeEffectsPartitionedBy(held[1], p)
       IN  /\ helperCalls' = Append(helperCalls,
                  HelperCall("take_effects_partitioned_by", p, r.ret, <<r.self>>))
           /\ held' = <<r.self>>
    /\ UNCHANGED <<cmdVars, testerVars, macroVars, stepVars>>

UpdNext ==
    \/ DoExpectOneEffect
    \/ DoExpectOneEvent
    \/ DoAssertEmpty
    \/ \E p \in Predicates : DoTakeEffects(p)
    \/ \E p \in Predicates : DoTakeEffectsPartitionedBy(p)

InitUpdate == CmdInit /\ TesterInit /\ UpdInit /\ MacroIdle /\ StepIdle

SpecUpdate == InitUpdate /\ [][UpdNext]_vars

----------------------------------------------------------------------------
(* Properties of the Update helpers                                         *)

CallsOf(op) == {k \in 1..Len(helperCalls) : helperCalls[k].op = op}

\* The decimal numerals, written out.
Numeral(n) == <<"0", "1", "2", "3", "4", "5", "6", "7", "8", "9">>[n + 1]

Counts(u) ==
    Numeral(Len(u.effects)) \o " effect(s) and "
        \o Numeral(Len(u.events)) \o " event(s)"

Items(s) == {s[i] : i \in 1..Len(s)}

InOriginalOrder(s) == \A i, j \in 1..Len(s) : i < j => s[i].id < s[j].id

\* s holds exactly the items of from that are in the set wanted, in the
\* order they have in from.
IsSelection(s, from, wanted) ==
    /\ Items(s) = Items(from) \cap wanted
    /\ Len(s) = Cardinality(Items(s))
    /\ InOriginalOrder(s)

Matching(u, p) == {e \in Items(u.effects) : Matches(p, e)}

\* C11: Update::expect_one_effect returns the effect if and only if the Update
\* holds exactly one effect and no event; in every other case it panics, and
\* the message reports the actual numbers of effects and events (for two
\* effects and no events: "2 effect(s) and 0 event(s)").
C11_ExpectOneEffect ==
    \A k \in CallsOf("expect_one_effect") :
        LET c == helperCalls[k]
            u == c.before
            one == Len(u.effects) = 1 /\ Len(u.events) = 0
        IN  /\ ~c.ret.panicked <=> one
            /\ one => c.ret.effects = u.effects
            /\ ~one => c.ret.msg = "Expected one effect but found " \o Counts(u)
            /\ (Len(u.effects) = 2 /\ Len(u.events) = 0) =>
                   c.ret.msg = "Expected one effect but found 2 effect(s) and 0 event(s)"

C11_Witness ==
    \E k \in CallsOf("expect_one_effect") :
        /\ Len(helperCalls[k].before.effects) = 2
        /\ Len(helperCalls[k].before.events) = 0
        /\ helperCalls[k].ret.panicked

\* C12: Update::expect_one_event returns the event if and only if the Update
\* holds exactly one event and no effect; every other shape, one event next
\* to one or more effects included, panics with the actual counts.
C12_ExpectOneEvent ==
    \A k \in CallsOf("expect_one_event") :
        LET c == helperCalls[k]
            u == c.before
            one == Len(u.events) = 1 /\ Len(u.effects) = 0
        IN  /\ ~c.ret.panicked <=> one
            /\ one => c.ret.events = u.events
            /\ ~one => c.ret.msg = "Expected one event but found " \o Counts(u)

C12_Witness ==
    \E k \in CallsOf("expect_one_event") :
        /\ Len(helperCalls[k].before.events) = 1
        /\ Len(helperCalls[k].before.effects) >= 1
        /\ helperCalls[k].ret.panicked

\* Two sequences merged by the position their items had in the Update.
RECURSIVE MergeById(_, _)
MergeById(a, b) ==
    IF a = <<>> THEN b
    ELSE IF b = <<>> THEN a
    ELSE IF a[1].id < b[1].id THEN <<a[1]>> \o MergeById(Tail(a), b)
    ELSE <<b[1]>> \o MergeById(a, Tail(b))

\* take_effects(p) directly followed by take_effects(not p).
TakenBothWays(k) ==
    /\ k + 1 \in 1..Len(helperCalls)
    /\ helperCalls[k].op = "take_effects"
    /\ helperCalls[k + 1].op = "take_effects"
    /\ helperCalls[k + 1].pred = EffectKinds \ helperCalls[k].pred

\* C13: take_effects(p) followed by take_effects(not p) on the same Update
\* returns two sequences that, merged in their original relative order, are
\* exactly the effects the Update held, and the Update holds no effect
\* afterwards.
C13_TakeBothWaysLosesNothing ==
    \A k \in 1..Len(helperCalls) :
        TakenBothWays(k) =>
            /\ MergeById(helperCalls[k].ret.effects,
                         helperCalls[k + 1].ret.effects)
                   = helperCalls[k].before.effects
            /\ helperCalls[k + 1].after[1].effects = <<>>

C13_Witness ==
    \E k \in 1..Len(helperCalls) :
        /\ TakenBothWays(k)
        /\ Len(helperCalls[k].before.effects) = 3
        /\ helperCalls[k].ret.effects # <<>>
        /\ helperCalls[k + 1].ret.effects # <<>>
        /\ helperCalls[k].ret.effects[1].id > helperCalls[k + 1].ret.effects[1].id

\* C14: take_effects(p) returns exactly the effects that match p, in their
\* original order, leaves in the Update exactly those that do not, in their
\* original order, and leaves the events as they were.
C14_TakeEffectsSplits ==
    \A k \in CallsOf("take_effects") :
        LET c == helperCalls[k]
            u == c.before
        IN  /\ IsSelection(c.ret.effects, u.effects, Matching(u, c.pred))
            /\ IsSelection(c.after[1].effects, u.effects,
                           Items(u.effects) \ Matching(u, c.pred))
            /\ c.after[1].events = u.events

C14_Witness ==
    \E k \in CallsOf("take_effects") :
        /\ Len(helperCalls[k].ret.effects) = 2
        /\ Len(helperCalls[k].after[1].effects) = 1
        /\ helperCalls[k].after[1].effects[1].id = 2
        /\ helperCalls[k].after[1].events # <<>>

\* C15 as stated: after take_effects_partitioned_by(p) the Update still holds
\* the effects that do not match p, in their original relative order.
C15_PartitionLeavesOthers ==
    \A k \in CallsOf("take_effects_partitioned_by") :
        LET c == helperCalls[k]
            u == c.before
        IN  IsSelection(c.after[1].effects, u.effects,
                        Items(u.effects) \ Matching(u, c.pred))

\* C15, amended: take_effects_partitioned_by(p) takes every effect out of the
\* Update, which holds no effect after the call, and returns them as two
\* sequences, those matching p and the rest, each in its original relative
\* order; the events stay as they were.
C15_PartitionTakesAll ==
    \A k \in CallsOf("take_effects_partitioned_by") :
        LET c == helperCalls[k]
            u == c.before
        IN  /\ c.after[1].effects = <<>>
            /\ IsSelection(c.ret.effects, u.effects, Matching(u, c.pred))
            /\ IsSelection(c.ret.others, u.effects,
                           Items(u.effects) \ Matching(u, c.pred))
            /\ c.after[1].events = u.events

C15_Witness ==
    \E k \in CallsOf("take_effects_partitioned_by") :
        /\ Len(helperCalls[k].before.effects) = 3
        /\ Len(helperCalls[k].ret.effects) = 1
        /\ Len(helperCalls[k].ret.others) = 2
        /\ helperCalls[k].after[1].effects = <<>>

----------------------------------------------------------------------------
(* AppTester::resolve_to_event_then_update                                  *)

\* How many capabilities App::update calls for the one event it is given.
MaxChainSpawns == 1

\* Result::expect on the Err of Request::resolve.
ResolveFailedMsg == "failed to resolve request"

\* first: the Update that updates() gave expect_one_event, if it got that far.
\* updated: whether App::update was called.
ChainPanic(msg, st, first) ==
    [panicked |-> TRUE, msg |-> msg, st |-> st, first |-> first,
     updated |-> FALSE, update |-> EmptyUpdate]

\* names: the capabilities App::update calls for the event it is given.
TesterResolveToEventThenUpdateAlwaysUpdates(st, request, value, names) ==
    LET r == RequestResolve(st, request, value)
        u == Updates(r.st)
        w == TesterUpdate(u.st, names)
    IN  IF ~r.ok THEN ChainPanic(ResolveFailedMsg, r.st, <<>>)
        ELSE [panicked |-> FALSE, msg |-> "", st |-> w.st,
              first |-> <<u.update>>, updated |-> TRUE, update |-> w.update]

TesterResolveToEventThenUpdate(st, request, value, names) ==
    LET r == RequestResolve(st, request, value)
    IN  IF ~r.ok THEN ChainPanic(ResolveFailedMsg, r.st, <<>>)
        ELSE LET u == Updates(r.st)
                 event == ExpectOneEvent(u.update)
             IN  IF event.panicked
                 THEN ChainPanic(event.msg, u.st, <<u.update>>)
                 ELSE LET w == TesterUpdate(u.st, names)
                      IN  [panicked |-> FALSE, msg |-> "", st |-> w.st,
                           first |-> <<u.update>>, updated |-> TRUE,
                           update |-> w.update]

RECURSIVE DeliverAll(_, _)
DeliverAll(sofar, updates) ==
    IF updates = <<>> THEN sofar
    ELSE DeliverAll([effects |-> sofar.effects \o Head(updates).effects,
                     events |-> sofar.events \o Head(updates).events],
                    Tail(updates))

\* A panic ends the test.
Running == lastOp.kind = "resolve_to_event_then_update" => lastOp.ok

DoResolveToEventThenUpdate(request, value, names) ==
    /\ Running
    /\ Len(app.tasks) + UnitsOf(names) <= MaxTasks
    /\ LET r == TesterResolveToEventThenUpdate(app, request, value, names)
       IN  /\ app' = r.st
           /\ delivered' = DeliverAll(delivered, r.first \o <<r.update>>)
           /\ lastOp' = [kind |-> "resolve_to_event_then_update",
                         ok |-> ~r.panicked, update |-> r.update,
                         spawned |-> Len(names), request |-> request,
                         fromEff |-> Len(app.effLog), fromEv |-> Len(app.evLog),
                         polls |-> r.st.polls - app.polls,
                         value |-> value, names |-> names, msg |-> r.msg,
                         first |-> r.first, updated |-> r.updated]
    /\ UNCHANGED <<cmdVars, updVars, macroVars, stepVars>>

\* AppTester::update in a test that has not panicked.
DoUpdateRunning(names) ==
    /\ Running
    /\ DoUpdate(names)

ChainNext ==
    \/ \E names \in SeqsUpTo(Protocols, MaxSpawns) : DoUpdateRunning(names)
    \/ \E i \in 1..Len(delivered.effects), value \in Outputs,
          names \in SeqsUpTo(Protocols, MaxChainSpawns) :
           DoResolveToEventThenUpdate(delivered.effects[i], value, names)

SpecTesterChain == Init /\ [][ChainNext]_vars

\* The step is a call of resolve_to_event_then_update.
Chained == lastOp'.kind = "resolve_to_event_then_update"

\* What the three steps, made one after the other on the state before the
\* call, give: AppTester::resolve, then Update::expect_one_event on its
\* Update, then AppTester::update.
ChainResolved == TesterResolve(app, lastOp'.request, lastOp'.value)

ChainDemanded == ExpectOneEvent(ChainResolved.update)

ChainUpdated == TesterUpdate(ChainResolved.st, lastOp'.names)

\* C16: resolve_to_event_then_update(request, value, model) behaves as
\* resolving the request with the value, draining and demanding exactly one
\* event and no effect, running update with that event and returning that
\* second Update; it panics without calling update when the resolution fails
\* or when it produced anything other than exactly one event and no effect.
C16_ResolveToEventThenUpdate ==
    [][Chained =>
        IF ~ChainResolved.ok
        THEN /\ ~lastOp'.ok
             /\ ~lastOp'.updated
             /\ app' = app
        ELSE IF Len(ChainResolved.update.events) # 1
                \/ ChainResolved.update.effects # <<>>
        THEN /\ ~lastOp'.ok
             /\ ~lastOp'.updated
             /\ lastOp'.first = <<ChainResolved.update>>
             /\ app' = ChainResolved.st
        ELSE /\ lastOp'.ok
             /\ lastOp'.updated
             /\ ~ChainDemanded.panicked
             /\ lastOp'.first = <<ChainResolved.update>>
             /\ lastOp'.update = ChainUpdated.update
             /\ app' = ChainUpdated.st]_vars

C16_Witness ==
    /\ lastOp.kind = "resolve_to_event_then_update"
    /\ lastOp.ok
    /\ lastOp.updated
    /\ lastOp.first[1].events # <<>>
    /\ lastOp.update.effects # <<>>

----------------------------------------------------------------------------
(* #[derive(Effect)] (crux_macros/src/effect.rs): from a struct of          *)
(* capabilities to the effect enum and the WithContext constructor.         *)

MaxFields == 3

\* Field identifiers, listed in the order Ident's Ord gives them (the order
\* of their text).
FieldNames == <<"http", "key_value", "render", "time">>

Rank(name) == CHOOSE k \in 1..Len(FieldNames) : FieldNames[k] = name

\* The types a field is declared with: a capability over an event type, or a
\* type without a generic argument (event = "").
NotGeneric == ""
EventTypes == {"MyEvent", "YourEvent"}
FieldTypes ==
    [cap : {"Http", "Render", "Time"}, event : EventTypes]
        \cup {[cap |-> "u32", event |-> NotGeneric]}

\* The attributes #[effect(name = "..", app = "..")], each optional.
NameAttrs == {<<>>, <<"MyEffect">>}
AppAttrs == {<<>>, <<"MyApp">>}

\* A struct has no two fields of one name.
Declarations ==
    {fs \in SeqsUpTo([name : {FieldNames[k] : k \in 1..Len(FieldNames)},
                      ty : FieldTypes], MaxFields) :
        \A i, j \in 1..Len(fs) : fs[i].name = fs[j].name => i = j}

MacroPanic(msg) == [panicked |-> TRUE, msg |-> msg]

GenericMsg == "capabilities should be generic over a single event type"
SameEventMsg == "all fields should be generic over the same event type"
IndexMsg == "index out of bounds: the len is 0 but the index is 0"

\* split_event_type: the first path segment's ident and its first generic
\* argument; None, and so a panic, when there is no such argument.
SplitEventType(ty) ==
    IF ty.event = NotGeneric THEN <<>> ELSE <<[variant |-> ty.cap, event |-> ty.event]>>

\* BTreeMap::insert: the entries stay in ascending order of key, and a key
\* that is present gets the new value.
RECURSIVE BTreeInsert(_, _)
BTreeInsert(map, entry) ==
    IF map = <<>> THEN <<entry>>
    ELSE IF Rank(entry.key) < Rank(map[1].key) THEN <<entry>> \o map
    ELSE IF entry.key = map[1].key THEN <<entry>> \o Tail(map)
    ELSE <<map[1]>> \o BTreeInsert(Tail(map), entry)

\* collect with a slip: into a Vec of pairs, which keeps the fields in the
\* order they are declared in.
CollectInDeclaredOrder(map, fields) ==
    map \o [i \in 1..Len(fields) |->
               [key |-> fields[i].name, value |-> SplitEventType(fields[i].ty)[1]]]

\* .iter().map(..).collect::<BTreeMap<_, _>>()
RECURSIVE Collect(_, _)
Collect(map, fields) ==
    IF fields = <<>> THEN map
    ELSE Collect(BTreeInsert(map, [key |-> fields[1].name,
                                   value |-> SplitEventType(fields[1].ty)[1]]),
                 Tail(fields))

\* events.chunks(2) in place of events.windows(2).
SameEventInChunks(events) ==
    \A i \in 1..(Len(events) - 1) : i % 2 = 1 => events[i] = events[i + 1]

\* events.windows(2).all(|win| quote!(#t0).to_string() == quote!(#t1).to_string())
SameEvent(events) ==
    \A i \in 1..(Len(events) - 1) : events[i] = events[i + 1]

OrDefault(attr, default) == IF attr = <<>> THEN default ELSE attr[1]

ToTokens(d) ==
    IF \E i \in 1..Len(d.fields) : SplitEventType(d.fields[i].ty) = <<>>
    THEN MacroPanic(GenericMsg)
    ELSE
    LET effectTy == OrDefault(d.name, "Effect")
        appTy == OrDefault(d.app, "App")
        fields == Collect(<<>>, d.fields)
        events == [i \in 1..Len(fields) |-> fields[i].value.event]
    IN  IF ~SameEvent(events) THEN MacroPanic(SameEventMsg)
        ELSE IF events = <<>> THEN MacroPanic(IndexMsg)
        ELSE [panicked |-> FALSE, msg |-> "",
              enum |-> [name |-> effectTy,
                        variants |-> [i \in 1..Len(fields) |->
                            [variant |-> fields[i].value.variant,
                             capability |-> fields[i].value.variant,
                             event |-> fields[i].value.event]]],
              impl |-> [app |-> appTy, effect |-> effectTy, for |-> d.ident,
                        event |-> events[1],
                        fields |-> [i \in 1..Len(fields) |->
                            [field |-> fields[i].key,
                             capability |-> fields[i].value.variant,
                             tag |-> [enum |-> effectTy,
                                      variant |-> fields[i].value.variant]]]]]

----------------------------------------------------------------------------
(* The derive state machine: a struct is declared and the macro expands.   *)

MacroInit ==
    /\ \E fs \in Declarations, name \in NameAttrs, a \in AppAttrs :
           decl = [ident |-> "Capabilities", name |-> name, app |-> a,
                   fields |-> fs]
    /\ derived = <<>>

Derive ==
    /\ derived = <<>>
    /\ derived' = <<ToTokens(decl)>>
    /\ UNCHANGED <<decl, cmdVars, testerVars, updVars, stepVars>>

MacroNext == Derive

InitMacro == CmdInit /\ TesterInit /\ UpdIdle /\ MacroInit /\ StepIdle

SpecMacro == InitMacro /\ [][MacroNext]_vars

----------------------------------------------------------------------------
(* Properties of #[derive(Effect)]                                          *)

Derived == derived # <<>>

NumFields == Len(decl.fields)

\* Some two fields are not generic over the same event type.
Mixed ==
    \E i, j \in 1..NumFields : decl.fields[i].ty.event # decl.fields[j].ty.event

\* There are fields, and they are all generic over one event type.
AllShare ==
    /\ NumFields >= 1
    /\ \E e \in EventTypes : \A i \in 1..NumFields : decl.fields[i].ty.event = e

\* C17: a declaration whose fields are not all generic over the same event
\* type is rejected with a panic, for every number of fields from two up and
\* wherever the differing field sits; a declaration whose fields all share
\* one event type is accepted.
C17_MixedEventTypesRejected ==
    Derived =>
        /\ (NumFields >= 2 /\ Mixed) => derived[1].panicked
        /\ AllShare => ~derived[1].panicked

C17_Witness ==
    /\ Derived
    /\ NumFields = 3
    /\ \A i \in 1..NumFields : decl.fields[i].ty.event \in EventTypes
    /\ decl.fields[1].ty.event = decl.fields[2].ty.event
    /\ Rank(decl.fields[1].name) = 1
    /\ Rank(decl.fields[2].name) = 2
    /\ decl.fields[3].ty.event # decl.fields[1].ty.event
    /\ derived[1].panicked
    /\ derived[1].msg = SameEventMsg

\* C18: for every accepted declaration with n fields the generated enum has
\* exactly one variant per field, n variants that are pairwise distinct, and
\* the constructor initialises each field with its capability built over the
\* context tagged with that field's own variant.
C18_OneVariantPerField ==
    (Derived /\ ~derived[1].panicked) =>
        LET variants == derived[1].enum.variants
            inits == derived[1].impl.fields
        IN  /\ Len(variants) = NumFields
            /\ \A i, j \in 1..Len(variants) :
                   variants[i].variant = variants[j].variant => i = j
            /\ Len(inits) = NumFields
            /\ \A k \in 1..NumFields :
                   \E i \in 1..Len(inits) :
                       /\ inits[i].field = decl.fields[k].name
                       /\ inits[i].capability = decl.fields[k].ty.cap
                       /\ inits[i].tag.enum = derived[1].enum.name
                       /\ inits[i].tag.variant = variants[i].variant
                       /\ variants[i].capability = decl.fields[k].ty.cap


\* The orders the fields of a struct of n fields can be declared in.
Orders(n) == {p \in [1..n -> 1..n] : \A i, j \in 1..n : p[i] = p[j] => i = j}

\* decl with its fields declared in the order p.
Reordered(p) ==
    [decl EXCEPT !.fields = [i \in 1..NumFields |-> decl.fields[p[i]]]]

\* C22: the variants of the generated enum are emitted in ascending order of
\* field name, not in the order the fields are declared in: two declarations
\* with the same fields in different orders generate the same enum.
C22_VariantsInFieldNameOrder ==
    (Derived /\ ~derived[1].panicked) =>
        LET variants == derived[1].enum.variants
            inits == derived[1].impl.fields
        IN  /\ Len(variants) = NumFields
            /\ Len(inits) = NumFields
            /\ \A i, j \in 1..NumFields :
                   i < j => Rank(inits[i].field) < Rank(inits[j].field)
            /\ \A i \in 1..NumFields :
                   \E k \in 1..NumFields :
                       /\ decl.fields[k].name = inits[i].field
                       /\ variants[i].variant = decl.fields[k].ty.cap
            /\ \A p \in Orders(NumFields) :
                   ToTokens(Reordered(p)) = derived[1]

C22_Witness ==
    /\ Derived
    /\ ~derived[1].panicked
    /\ NumFields = 3
    /\ Rank(decl.fields[1].name) > Rank(decl.fields[2].name)
    /\ Rank(decl.fields[2].name) > Rank(decl.fields[3].name)
    /\ decl.fields[1].ty.cap # decl.fields[3].ty.cap
    /\ derived[1].enum.variants[1].variant = decl.fields[3].ty.cap
    /\ derived[1].enum.variants[3].variant = decl.fields[1].ty.cap

----------------------------------------------------------------------------
(* AppContext::updates statement by statement, first with the thread that *)
(* calls it alone, then with the senders of the two channels also in the   *)
(* hands of another thread.                                                 *)

MaxStepUnits == 2

\* What the other thread does: it sends an effect, then an event.
ProducerProgram == <<"effect", "event">>

\* One turn of the loop of QueuingExecutor::run_all: the unit queued first
\* is taken from the queue and polled.
RunOne(st) ==
    Poll([st EXCEPT !.ready = Tail(@), !.polls = @ + 1], Head(st.ready))

\* updates() with a slip: run_all replaced by one turn of its loop.
UpdatesStepRunsOne(st, at, effects) ==
    CASE at = "run_all" /\ st.ready # <<>> ->
             [st |-> RunOne(st), at |-> "drain_effects", effects |-> effects,
              update |-> <<>>]
      [] at = "run_all" /\ st.ready = <<>> ->
             [st |-> st, at |-> "drain_effects", effects |-> effects,
              update |-> <<>>]
      [] at = "drain_effects" ->
             [st |-> [st EXCEPT !.commands = <<>>], at |-> "drain_events",
              effects |-> Drain(st.commands), update |-> <<>>]
      [] at = "drain_events" ->
             [st |-> [st EXCEPT !.events = <<>>], at |-> "idle",
              effects |-> <<>>,
              update |-> <<[effects |-> effects, events |-> Drain(st.events)]>>]

\* The next step of a call of updates() that is at statement at, with
\* effects its local of that name: run_all polls one unit or returns, the
\* effect channel is drained, the event channel is drained and the Update is
\* returned.
UpdatesStep(st, at, effects) ==
    CASE at = "run_all" /\ st.ready # <<>> ->
             [st |-> RunOne(st), at |-> "run_all", effects |-> effects,
              update |-> <<>>]
      [] at = "run_all" /\ st.ready = <<>> ->
             [st |-> st, at |-> "drain_effects", effects |-> effects,
              update |-> <<>>]
      [] at = "drain_effects" ->
             [st |-> [st EXCEPT !.commands = <<>>], at |-> "drain_events",
              effects |-> Drain(st.commands), update |-> <<>>]
      [] at = "drain_events" ->
             [st |-> [st EXCEPT !.events = <<>>], at |-> "idle",
              effects |-> <<>>,
              update |-> <<[effects |-> effects, events |-> Drain(st.events)]>>]

\* AppTester::update up to its call of updates().
StepCallUpdate(names) ==
    /\ pc = "idle"
    /\ Len(app.tasks) + UnitsOf(names) <= MaxStepUnits
    /\ app' = AppUpdate(app, names)
    /\ pc' = "run_all"
    /\ UNCHANGED <<delivered, lastOp, partial, produced, cmdVars, updVars,
                   macroVars>>

\* AppTester::resolve up to its call of updates(); a failed resolution
\* returns before it and changes nothing.
StepCallResolve(request, value) ==
    /\ pc = "idle"
    /\ LET r == RequestResolve(app, request, value)
       IN  /\ r.ok
           /\ app' = r.st
    /\ pc' = "run_all"
    /\ UNCHANGED <<delivered, lastOp, partial, produced, cmdVars, updVars,
                   macroVars>>

StepUpdates ==
    /\ pc # "idle"
    /\ LET r == UpdatesStep(app, pc, partial)
       IN  /\ app' = r.st
           /\ pc' = r.at
           /\ partial' = r.effects
           /\ IF r.update = <<>>
              THEN UNCHANGED <<delivered, lastOp>>
              ELSE /\ delivered' = Deliver(r.update[1])
                   /\ lastOp' = [NoOp EXCEPT !.kind = "updates",
                                            !.update = r.update[1]]
    /\ UNCHANGED <<produced, cmdVars, updVars, macroVars>>

\* A thread that holds clones of the senders sends while updates() runs.
ProduceEffect ==
    /\ pc # "idle"
    /\ produced < Len(ProducerProgram)
    /\ ProducerProgram[produced + 1] = "effect"
    /\ app' = SendEffect(app, "Render", 0)
    /\ produced' = produced + 1
    /\ UNCHANGED <<delivered, lastOp, pc, partial, cmdVars, updVars, macroVars>>

ProduceEvent ==
    /\ pc # "idle"
    /\ produced < Len(ProducerProgram)
    /\ ProducerProgram[produced + 1] = "event"
    /\ app' = SendEvent(app, "Tick", "")
    /\ produced' = produced + 1
    /\ UNCHANGED <<delivered, lastOp, pc, partial, cmdVars, updVars, macroVars>>

\* App::update calls no capability or one.
StepCalls == {<<>>} \cup {<<name>> : name \in Protocols}

StepNext ==
    \/ \E names \in StepCalls : StepCallUpdate(names)
    \/ \E i \in 1..Len(delivered.effects), value \in Outputs :
           StepCallResolve(delivered.effects[i], value)
    \/ StepUpdates

\* The thread that called updates() keeps running until the call returns.
SpecSteps == Init /\ [][StepNext]_vars /\ WF_vars(StepUpdates)

\* The same with the other thread sending as well.
RaceNext ==
    \/ StepNext
    \/ ProduceEffect
    \/ ProduceEvent

SpecRace == Init /\ [][RaceNext]_vars

----------------------------------------------------------------------------
(* Properties of updates(), statement by statement                          *)

Finished(t) == t.pc > Len(Protocol(t.prog))

Suspended(t) == t.awaiting # 0 /\ ~t.resolved

\* Nothing is queued to run, and every unit has ended or awaits a response
\* that has not come.
Quiescent ==
    /\ app.ready = <<>>
    /\ \A tid \in 1..Len(app.tasks) :
           Finished(app.tasks[tid]) \/ Suspended(app.tasks[tid])

\* C19: updates() returns only at quiescence: with every unit suspending or
\* ending whenever it is polled, run_all terminates, and from its return to
\* the moment the Update is made no runnable unit remains, units scheduled
\* by other units during the same call included.
C19_RunAllReachesQuiescence ==
    /\ (pc = "run_all") ~> (pc = "idle")
    /\ [](pc # "run_all" => Quiescent)

C19_Witness ==
    /\ pc = "idle"
    /\ lastOp.kind = "updates"
    /\ Len(app.tasks) = 2
    /\ app.tasks[1].prog = "fan"
    /\ app.tasks[2].prog = "render"
    /\ Finished(app.tasks[1])
    /\ Finished(app.tasks[2])
    /\ \E i \in 1..Len(lastOp.update.effects) :
           lastOp.update.effects[i].op = "Render"

\* An effect that no Update up to the last one holds.
Omitted(e) ==
    \A i \in 1..Len(delivered.effects) : delivered.effects[i].id # e.id

====
